---- MODULE Spec2Model ----
(***************************************************************************)
(* Model of the superdoge-rs UTXO index: the key-value store and its       *)
(* add/rem mutators (src/src/utxo.rs), the block applier exec/undo with    *)
(* the rewind ring (src/src/block.rs) and the read API (src/src/api.rs).   *)
(***************************************************************************)
EXTENDS Integers, Sequences, FiniteSets, TLC

VARIABLES
    db,        \* the LevelDB store: a function from present keys to values
    rewind,    \* Rewind: one map UTXOID -> (Option<UTXOData>, Option<raw>) per ring slot
    status,    \* "ok", "err" (an Err was returned) or "panic" (the thread aborted)
    build,     \* "debug" (overflow checks on) or "release" (wrapping arithmetic)
    chain,     \* the applied blocks, lowest height first (each a sequence of txids)
    undoable,  \* how many of the most recent blocks the driver may still undo
    calls,     \* the rem calls of the last exec/undo: [self, idx, pre, post, st]
    last,      \* the last operation: [op, block, idx, order, pre, ...]
    req,       \* the last request given to handle_request
    resp,      \* its result
    steps,     \* how many exec/undo calls the driver has made
    writer,    \* an add or rem in progress: its operations and the next one
    reader     \* a get_balance in progress: its position and locals

vars == <<db, rewind, status, build, chain, undoable, calls, last, req, resp,
          steps, writer, reader>>

----------------------------------------------------------------------------
(* Bounds of the model.                                                    *)

\* width of the modelled u32 (lengths, counts, vout, heights)
U32Bits == 5
\* highest block height the driver reaches
MaxHeight == 3
\* most transactions in one block
MaxBlockTxs == 2
\* most exec/undo calls in one run of the driver
MaxSteps == 5
\* most store operations that succeed before an injected storage failure
MaxIo == 52
\* crate::CONFIRMATIONS, the length N of the rewind ring (the value is set
\* outside the three files modelled here; the model runs a short ring)
CONFIRMATIONS == 2

U32Mod == 2 ^ U32Bits

----------------------------------------------------------------------------
(* Option<T>: None is the empty sequence, Some(x) the one-element one.     *)

None == << >>
Some(x) == << x >>
IsSome(o) == Len(o) = 1
Unwrap(o) == o[1]

----------------------------------------------------------------------------
(* The store: point get / put / delete on typed keys.                      *)
(*   <<1, addr>>        -> u32 length                                      *)
(*   <<1, addr, i>>     -> slot record [txid, vout, value]  (44 bytes)     *)
(*   <<2, txid, vout>>  -> address key <<1, addr, i>>       (26 bytes)     *)
(*   <<4, txid>>        -> raw transaction bytes                           *)
(*   <<5, txid>>        -> u32 unspent-output count                        *)

EmptyDb == << >>

Get(d, k) == IF k \in DOMAIN d THEN Some(d[k]) ELSE None

Put(d, k, v) == [x \in (DOMAIN d) \cup {k} |-> IF x = k THEN v ELSE d[x]]

Delete(d, k) == [x \in (DOMAIN d) \ {k} |-> d[x]]

----------------------------------------------------------------------------
(* u32 arithmetic.  `oc` is true when the build has overflow checks: the   *)
(* operation then panics instead of wrapping.                              *)

U32Sub1(oc, x) ==
    IF x >= 1 THEN [ok |-> TRUE, v |-> x - 1]
    ELSE IF oc THEN [ok |-> FALSE, v |-> 0]
    ELSE [ok |-> TRUE, v |-> U32Mod - 1]

U32Add1(oc, x) ==
    IF x + 1 < U32Mod THEN [ok |-> TRUE, v |-> x + 1]
    ELSE IF oc THEN [ok |-> FALSE, v |-> 0]
    ELSE [ok |-> TRUE, v |-> 0]

----------------------------------------------------------------------------
(* Transactions.  A script is [kind, hash]; an address is the 21 bytes     *)
(* <<version, hash>>.  The raw bytes of a transaction are modelled as the  *)
(* record [bytesOf |-> tx]; decoding reads the transaction back.           *)

P2PKH == "P2PKH"
P2SH == "P2SH"

NullOutpoint == [txid |-> "0", vout |-> U32Mod - 1]

is_null(o) == o.txid = "0" /\ o.vout = U32Mod - 1

consensus_encode(tx) == [bytesOf |-> tx]

consensus_decode(raw) == raw.bytesOf

\* TxIn -> UTXOID
UTXOID_from(txin) == [txid |-> txin.txid, vout |-> txin.vout]

from_txout(txid, out, vout) ==
    [txid |-> txid,
     vout |-> vout,
     value |-> out.value,
     address |->
        IF out.script.kind = "p2pkh" THEN Some(<<P2PKH, out.script.hash>>)
        ELSE IF out.script.kind = "p2sh" THEN Some(<<P2SH, out.script.hash>>)
        ELSE None]

\* (addr_key, addr_value) -> (UTXOID, UTXOData)
from_kv(addr_key, addr_value) ==
    <<[txid |-> addr_value.txid, vout |-> addr_value.vout],
      [address |-> Some(addr_key[2]), value |-> addr_value.value]>>

\* (&UTXOID, UTXOData) -> UTXO
UTXO_from(id, data) ==
    [txid |-> id.txid, vout |-> id.vout, value |-> data.value,
     address |-> data.address]

----------------------------------------------------------------------------
(* The mutators run on a context S = [db, rewind, st, oc, calls, ioLeft,   *)
(* pos]: the store, the rewind ring, the outcome so far ("ok", "err",      *)
(* "panic"), the build's overflow checks, the log of rem calls, the number *)
(* of store operations that succeed before the storage starts to fail (-1  *)
(* when it never fails), and Block.pos, the number of items the block's    *)
(* iterator has yielded.  Every mutator returns S unchanged once st is no  *)
(* longer "ok" (the `?` of the caller).                                    *)
(*                                                                         *)
(* add and rem are written as the sequence of their operations in program  *)
(* order; every read of either function precedes every write to the key it *)
(* reads, so the values read are those of the store at the call.           *)

Ctx(d, rw, oc) ==
    [db |-> d, rewind |-> rw, st |-> "ok", oc |-> oc, calls |-> << >>, ioLeft |-> -1,
     pos |-> 0]

\* a context whose storage fails at store operation number n + 1
CtxFailing(d, rw, oc, n) == [Ctx(d, rw, oc) EXCEPT !.ioLeft = n]

\* mutant: every height uses ring position 0
RingSlotZero(idx) == 0

RingSlot(idx) == idx % CONFIRMATIONS

EmptyRewind == [s \in 0 .. CONFIRMATIONS - 1 |-> << >>]

\* mutant: the spend is not recorded in the ring
RewindInsertDropped(rw, idx, id, entry) == rw

\* HashMap::insert on rewind[idx as usize % CONFIRMATIONS]
RewindInsert(rw, idx, id, entry) ==
    [rw EXCEPT ![RingSlot(idx)] =
        [x \in (DOMAIN @) \cup {id} |-> IF x = id THEN entry ELSE @[x]]]

\* mutant: the ring position is not cleared
RewindClearKept(rw, idx) == rw

\* rewind[idx as usize % CONFIRMATIONS] = HashMap::new()
RewindClear(rw, idx) == [rw EXCEPT ![RingSlot(idx)] = << >>]

\* the operations of add and rem
OpGet(k) == [op |-> "get", key |-> k]
OpPut(k, v) == [op |-> "put", key |-> k, val |-> v]
OpDelete(k) == [op |-> "delete", key |-> k]
OpInsert(idx, id, entry) == [op |-> "insert", idx |-> idx, key |-> id, val |-> entry]
OpPanic == [op |-> "panic"]
OpBail == [op |-> "bail"]

\* what a write does to the store
Write(d, o) ==
    IF o.op = "put" THEN Put(d, o.key, o.val)
    ELSE IF o.op = "delete" THEN Delete(d, o.key)
    ELSE d

\* one operation: ldb_try! returns the storage's error, an arithmetic
\* overflow aborts the thread, bail! returns an error
Do(S, o) ==
    IF S.st # "ok" THEN S
    ELSE IF o.op = "insert"
    THEN [S EXCEPT !.rewind = RewindInsert(@, o.idx, o.key, o.val)]
    ELSE IF o.op = "panic" THEN [S EXCEPT !.st = "panic"]
    ELSE IF o.op = "bail" THEN [S EXCEPT !.st = "err"]
    ELSE IF S.ioLeft = 0 THEN [S EXCEPT !.st = "err"]
    ELSE [S EXCEPT !.db = Write(@, o),
                   !.ioLeft = IF @ > 0 THEN @ - 1 ELSE @]

RECURSIVE Run(_, _, _)
Run(S, ops, k) ==
    IF k > Len(ops) \/ S.st # "ok" THEN S
    ELSE Run(Do(S, ops[k]), ops, k + 1)

\* the operations of UTXO::add(self, db, raw) on store d
AddOps(d, utxo, raw, oc) ==
    LET rawOps == IF IsSome(raw)
                  THEN <<OpPut(<<5, utxo.txid>>, Unwrap(raw)[2]),
                         OpPut(<<4, utxo.txid>>, Unwrap(raw)[1])>>
                  ELSE << >>
    IN  IF ~IsSome(utxo.address) THEN rawOps ELSE
        LET address == Unwrap(utxo.address)
            len == Get(d, <<1, address>>)
            n == IF IsSome(len) THEN Unwrap(len) ELSE 0
            inc == U32Add1(oc, n)
            addr_key == <<1, address, n>>
        IN  rawOps \o <<OpGet(<<1, address>>)>> \o
            (IF ~inc.ok THEN <<OpPanic>> ELSE
             <<OpPut(<<1, address>>, inc.v),
               OpPut(<<2, utxo.txid, utxo.vout>>, addr_key),
               OpPut(addr_key, [txid |-> utxo.txid, vout |-> utxo.vout,
                                value |-> utxo.value])>>)

\* UTXO::add(self, db, raw), raw = Option<(raw bytes, output count)>
add(S, utxo, raw) ==
    IF S.st # "ok" THEN S ELSE Run(S, AddOps(S.db, utxo, raw, S.oc), 1)

\* the tag-5 bookkeeping of rem: delete when the count reaches 0, then put
RemCount(k5, unspents) ==
    (IF unspents = 0 THEN <<OpDelete(k5)>> ELSE << >>) \o <<OpPut(k5, unspents)>>

\* mutant: the last slot is not moved into the victim's place
RemSwapNoMove(d, addr_key, replacement_addr_key) == << >>

\* mutant: the last slot is moved but its back-reference is left behind
RemSwapStaleRef(d, addr_key, replacement_addr_key) ==
    IF replacement_addr_key[3] # addr_key[3]
         /\ replacement_addr_key \in DOMAIN d
    THEN <<OpPut(addr_key, d[replacement_addr_key])>>
    ELSE << >>

\* mutant: the last slot is moved to index 0 of the address
RemSwapToFront(d, addr_key, replacement_addr_key) ==
    IF replacement_addr_key[3] # addr_key[3]
         /\ replacement_addr_key \in DOMAIN d
    THEN LET v == d[replacement_addr_key]
             front == <<1, addr_key[2], 0>>
         IN  <<OpPut(<<2, v.txid, v.vout>>, front), OpPut(front, v)>>
    ELSE << >>

\* the swap-delete of rem: move the last slot into the victim's place
RemSwap(d, addr_key, replacement_addr_key) ==
    IF replacement_addr_key[3] # addr_key[3]
    THEN LET replacement_addr_value == Get(d, replacement_addr_key)
         IN  <<OpGet(replacement_addr_key)>> \o
             (IF IsSome(replacement_addr_value)
              THEN LET v == Unwrap(replacement_addr_value)
                       update_index == from_kv(replacement_addr_key, v)
                   IN  <<OpPut(<<2, update_index[1].txid, update_index[1].vout>>,
                               addr_key),
                         OpPut(addr_key, v)>>
              ELSE << >>)
    ELSE << >>

\* the operations of UTXOID::rem(self, db, idx, rewind) on store d
RemOps(d, self, idx, oc) ==
    LET k4 == <<4, self.txid>>
        k5 == <<5, self.txid>>
        raw == Get(d, k4)
        c == Get(d, k5)
        sub == U32Sub1(oc, IF IsSome(c) THEN Unwrap(c) ELSE 0)
        utxoid_key == <<2, self.txid, self.vout>>
        back == Get(d, utxoid_key)
    IN  <<OpGet(k4), OpGet(k5)>> \o
        (IF ~sub.ok THEN <<OpPanic>> ELSE
         RemCount(k5, sub.v) \o <<OpGet(utxoid_key)>> \o
         (IF ~IsSome(back) THEN << >> ELSE
          LET addr_key == Unwrap(back)
              len_key == <<1, addr_key[2]>>
              len == Get(d, len_key)
          IN  <<OpGet(len_key)>> \o
              (IF ~IsSome(len) THEN <<OpBail>> ELSE
               LET dec == U32Sub1(oc, Unwrap(len))
               IN  IF ~dec.ok THEN <<OpPanic>> ELSE
                   LET replacement_idx == dec.v
                       replacement_addr_key == <<1, addr_key[2], replacement_idx>>
                       addr_val == Get(d, addr_key)
                       kv == IF IsSome(addr_val)
                             THEN LET a == from_kv(addr_key, Unwrap(addr_val))
                                  IN  <<a[1], Some(a[2])>>
                             ELSE <<self, None>>
                   IN  <<OpGet(addr_key),
                         OpInsert(idx, kv[1], [data |-> kv[2], raw |-> raw])>> \o
                       RemSwap(d, addr_key, replacement_addr_key) \o
                       <<OpDelete(replacement_addr_key),
                         OpDelete(utxoid_key),
                         OpPut(len_key, replacement_idx)>>)))

\* UTXOID::rem(self, db, idx, rewind)
rem(S, self, idx) ==
    IF S.st # "ok" THEN S ELSE Run(S, RemOps(S.db, self, idx, S.oc), 1)

\* one rem call, recorded with the store and ring before and after it
CallRem(S, self, idx) ==
    IF S.st # "ok" THEN S ELSE
    LET R == rem(S, self, idx)
    IN  [R EXCEPT !.calls = Append(S.calls,
            [self |-> self, idx |-> idx,
             pre |-> [db |-> S.db, rewind |-> S.rewind],
             post |-> [db |-> R.db, rewind |-> R.rewind],
             st |-> R.st])]

----------------------------------------------------------------------------
(* Block::exec and Block::undo.  A block is the sequence of the items its  *)
(* iterator yields: Some(tx) for a transaction [txid, input, output] that  *)
(* parse_tx decodes, None for one it cannot decode; vout counts from 0.    *)

\* mutant: rem is called for every input, the coinbase's null outpoint too
RECURSIVE ExecInputsAll(_, _, _, _)
ExecInputsAll(S, input, k, idx) ==
    IF k > Len(input) THEN S
    ELSE ExecInputsAll(CallRem(S, UTXOID_from(input[k]), idx), input, k + 1, idx)

RECURSIVE ExecInputs(_, _, _, _)
ExecInputs(S, input, k, idx) ==
    IF k > Len(input) THEN S
    ELSE ExecInputs(IF ~is_null(input[k])
                    THEN CallRem(S, UTXOID_from(input[k]), idx)
                    ELSE S,
                    input, k + 1, idx)

RECURSIVE ExecOutputs(_, _, _)
ExecOutputs(S, tx, k) ==
    IF k > Len(tx.output) THEN S
    ELSE ExecOutputs(add(S, from_txout(tx.txid, tx.output[k], k - 1), None),
                     tx, k + 1)

\* the body of exec's loop for one item of the block
ExecTx(S, item, idx) ==
    IF ~IsSome(item) THEN [S EXCEPT !.st = "err"] ELSE
    LET tx == Unwrap(item)
        S1 == ExecInputs(S, tx.input, 1, idx)
        S2 == Do(S1, OpPut(<<5, tx.txid>>, Len(tx.output)))
        S3 == Do(S2, OpPut(<<4, tx.txid>>, consensus_encode(tx)))
    IN  ExecOutputs(S3, tx, 1)

\* mutant: the transactions of the block are processed last to first
RECURSIVE ExecTxsReversed(_, _, _, _)
ExecTxsReversed(S, block, k, idx) ==
    IF k > Len(block) \/ S.st # "ok" THEN S
    ELSE ExecTxsReversed(ExecTx([S EXCEPT !.pos = k], block[Len(block) + 1 - k], idx),
                         block, k + 1, idx)

RECURSIVE ExecTxs(_, _, _, _)
ExecTxs(S, block, k, idx) ==
    IF k > Len(block) \/ S.st # "ok" THEN S
    ELSE ExecTxs(ExecTx([S EXCEPT !.pos = k], block[k], idx), block, k + 1, idx)

\* mutant: a block that fails is rolled back
exec_rollback(S, block, idx) ==
    LET R == ExecTxs([S EXCEPT !.rewind = RewindClear(S.rewind, idx)], block, 1, idx)
    IN  IF R.st = "err" THEN [R EXCEPT !.db = S.db, !.rewind = S.rewind] ELSE R

exec(S, block, idx) ==
    ExecTxs([S EXCEPT !.rewind = RewindClear(S.rewind, idx)], block, 1, idx)

\* client.getrawtransaction(txid, 0): the node serves the raw transaction
getrawtransaction(node, txid) == consensus_encode(node[txid])

\* mutant: only the entry the iterator yields first is replayed
RECURSIVE UndoReplayFirstOnly(_, _, _, _, _)
UndoReplayFirstOnly(S, entries, order, k, node) ==
    IF k > 1 \/ k > Len(order) \/ S.st # "ok" THEN S
    ELSE LET id == order[k]
             e == entries[id]
             raw == IF IsSome(e.raw) THEN Unwrap(e.raw)
                    ELSE getrawtransaction(node, id.txid)
             tx == consensus_decode(raw)
             utxo == IF IsSome(e.data) THEN UTXO_from(id, Unwrap(e.data))
                     ELSE from_txout(id.txid, tx.output[id.vout + 1], id.vout)
         IN  UndoReplayFirstOnly(add(S, utxo, Some(<<raw, Len(tx.output)>>)),
                                 entries, order, k + 1, node)

\* undo's first loop: the rewind entries, in the map's iteration order
RECURSIVE UndoReplay(_, _, _, _, _)
UndoReplay(S, entries, order, k, node) ==
    IF k > Len(order) \/ S.st # "ok" THEN S
    ELSE LET id == order[k]
             e == entries[id]
             raw == IF IsSome(e.raw) THEN Unwrap(e.raw)
                    ELSE getrawtransaction(node, id.txid)
             tx == consensus_decode(raw)
             utxo == IF IsSome(e.data) THEN UTXO_from(id, Unwrap(e.data))
                     ELSE from_txout(id.txid, tx.output[id.vout + 1], id.vout)
         IN  UndoReplay(add(S, utxo, Some(<<raw, Len(tx.output)>>)),
                        entries, order, k + 1, node)

RECURSIVE UndoOutputs(_, _, _, _)
UndoOutputs(S, tx, k, idx) ==
    IF k > Len(tx.output) THEN S
    ELSE UndoOutputs(CallRem(S, [txid |-> tx.txid, vout |-> k - 1], idx),
                     tx, k + 1, idx)

\* the body of undo's second loop for one item of the block
UndoTx(S, item, idx) ==
    IF ~IsSome(item) THEN [S EXCEPT !.st = "err"]
    ELSE UndoOutputs(S, Unwrap(item), 1, idx)

RECURSIVE UndoTxs(_, _, _, _)
UndoTxs(S, block, k, idx) ==
    IF k > Len(block) \/ S.st # "ok" THEN S
    ELSE UndoTxs(UndoTx([S EXCEPT !.pos = k], block[k], idx), block, k + 1, idx)

\* `order` is the order in which the HashMap iterator yields the entries
undo(S, block, idx, order, node) ==
    LET S1 == UndoReplay(S, S.rewind[RingSlot(idx)], order, 1, node)
    IN  IF S1.st # "ok" THEN S1
        ELSE UndoTxs([S1 EXCEPT !.rewind = RewindClear(S1.rewind, idx)],
                     block, 1, idx)

----------------------------------------------------------------------------
(* The read API.  A result is [kind, bal, utxos, err] with kind "Balance", *)
(* "UTXOs" or "Err".  An address string is modelled by what base58check    *)
(* decoding makes of it: [valid, len, body].                               *)

DefaultMinCount == 20

Err(msg) == [kind |-> "Err", bal |-> 0, utxos |-> << >>, err |-> msg]
OkBalance(b) == [kind |-> "Balance", bal |-> b, utxos |-> << >>, err |-> ""]
OkUTXOs(u) == [kind |-> "UTXOs", bal |-> 0, utxos |-> u, err |-> ""]

\* bitcoin::util::base58::from_check
from_check(address) ==
    IF address.valid THEN Some([len |-> address.len, body |-> address.body])
    ELSE None

\* the address string that decodes to the 21 bytes of `a`
Base58Of(a) == [valid |-> TRUE, len |-> 21, body |-> a]

\* str::parse of a query parameter
parse(s) == IF s.numeric THEN Some(s.n) ELSE None

\* the stored length of an address, 0 when the key is absent
StoredLen(d, addr_key) ==
    LET len == Get(d, addr_key) IN IF IsSome(len) THEN Unwrap(len) ELSE 0

RECURSIVE BalanceLoop(_, _, _, _, _)
BalanceLoop(d, addr, i, len, bal) ==
    IF i >= len THEN OkBalance(bal)
    ELSE LET addr_value == Get(d, <<1, addr, i>>)
         IN  IF ~IsSome(addr_value) THEN Err("utxo missing")
             ELSE BalanceLoop(d, addr, i + 1, len, bal + Unwrap(addr_value).value)

\* mutant: the sum starts at slot 1
get_balance_from_one(d, address) ==
    LET address_vec == from_check(address)
    IN  IF ~IsSome(address_vec) THEN Err("base58")
        ELSE IF Unwrap(address_vec).len # 21 THEN Err("invalid address length")
        ELSE LET addr == Unwrap(address_vec).body
             IN  BalanceLoop(d, addr, 1, StoredLen(d, <<1, addr>>), 0)

\* mutant: the length of the decoded address is not checked
get_balance_any_length(d, address) ==
    LET address_vec == from_check(address)
    IN  IF ~IsSome(address_vec) THEN Err("base58")
        ELSE LET addr == Unwrap(address_vec).body
             IN  BalanceLoop(d, addr, 0, StoredLen(d, <<1, addr>>), 0)

get_balance(d, address) ==
    LET address_vec == from_check(address)
    IN  IF ~IsSome(address_vec) THEN Err("base58")
        ELSE IF Unwrap(address_vec).len # 21 THEN Err("invalid address length")
        ELSE LET addr == Unwrap(address_vec).body
             IN  BalanceLoop(d, addr, 0, StoredLen(d, <<1, addr>>), 0)

RECURSIVE UtxosLoop(_, _, _, _, _, _, _, _)
UtxosLoop(d, addr, i, len, bal, utxos, amount, min_count) ==
    IF i >= len THEN OkUTXOs(utxos)
    ELSE LET addr_value == Get(d, <<1, addr, i>>)
         IN  IF ~IsSome(addr_value) THEN Err("utxo missing") ELSE
             LET v == Unwrap(addr_value)
                 raw == Get(d, <<4, v.txid>>)
             IN  IF ~IsSome(raw) THEN Err("raw missing") ELSE
                 LET bal2 == bal + v.value
                     utxos2 == Append(utxos,
                                 [txid |-> v.txid, vout |-> v.vout,
                                  value |-> v.value, raw |-> Unwrap(raw)])
                 IN  IF i >= min_count /\ bal2 >= amount THEN OkUTXOs(utxos2)
                     ELSE UtxosLoop(d, addr, i + 1, len, bal2, utxos2,
                                    amount, min_count)

\* mutant: no default for minCount
get_utxos_no_default(d, address, amount, min_count) ==
    LET mc == IF IsSome(min_count) THEN Unwrap(min_count) ELSE 0
        address_vec == from_check(address)
    IN  IF ~IsSome(address_vec) THEN Err("base58")
        ELSE IF Unwrap(address_vec).len # 21 THEN Err("invalid address length")
        ELSE LET addr == Unwrap(address_vec).body
             IN  UtxosLoop(d, addr, 0, StoredLen(d, <<1, addr>>), 0, << >>,
                           amount, mc)

get_utxos(d, address, amount, min_count) ==
    LET mc == IF IsSome(min_count) THEN Unwrap(min_count) ELSE DefaultMinCount
        address_vec == from_check(address)
    IN  IF ~IsSome(address_vec) THEN Err("base58")
        ELSE IF Unwrap(address_vec).len # 21 THEN Err("invalid address length")
        ELSE LET addr == Unwrap(address_vec).body
             IN  UtxosLoop(d, addr, 0, StoredLen(d, <<1, addr>>), 0, << >>,
                           amount, mc)

\* a request is [path, address, amount, minCount], the parameters Options
handle_request(d, r) ==
    IF r.path = "/balance" THEN
        IF ~IsSome(r.address) THEN Err("missing address")
        ELSE get_balance(d, Unwrap(r.address))
    ELSE IF r.path = "/utxos" THEN
        IF ~IsSome(r.address) THEN Err("missing address")
        ELSE IF ~IsSome(r.amount) THEN Err("missing amount")
        ELSE LET amount == parse(Unwrap(r.amount))
             IN  IF ~IsSome(amount) THEN Err("parse amount")
                 ELSE IF IsSome(r.minCount) /\ ~IsSome(parse(Unwrap(r.minCount)))
                 THEN Err("parse minCount")
                 ELSE get_utxos(d, Unwrap(r.address), Unwrap(amount),
                                IF IsSome(r.minCount)
                                THEN Some(Unwrap(parse(Unwrap(r.minCount))))
                                ELSE None)
    ELSE Err("unsupported endpoint")

----------------------------------------------------------------------------
(* The transactions the upstream node can serve.  T1 and T2 are coinbase   *)
(* transactions; T3 and T6 spend the same output (two branches of a        *)
(* reorg); T2:0 and T5:0 pay a script that is neither p2pkh nor p2sh.      *)

A1 == <<P2PKH, "h1">>
A2 == <<P2SH, "h2">>
A3 == <<P2PKH, "h2">>
Addrs == {A1, A2, A3}

Pkh(h, v) == [script |-> [kind |-> "p2pkh", hash |-> h], value |-> v]
Sh(h, v) == [script |-> [kind |-> "p2sh", hash |-> h], value |-> v]
Other(v) == [script |-> [kind |-> "other", hash |-> "h0"], value |-> v]
In(t, j) == [txid |-> t, vout |-> j]

TxIds == {"T1", "T2", "T3", "T4", "T5", "T6"}

Node ==
    [t \in TxIds |->
        CASE t = "T1" -> [txid |-> t, input |-> <<NullOutpoint>>,
                          output |-> <<Pkh("h1", 10), Pkh("h1", 20), Pkh("h1", 30)>>]
          [] t = "T2" -> [txid |-> t, input |-> <<NullOutpoint>>,
                          output |-> <<Other(5), Sh("h2", 7)>>]
          [] t = "T3" -> [txid |-> t, input |-> <<In("T1", 1)>>,
                          output |-> <<Sh("h2", 20)>>]
          [] t = "T4" -> [txid |-> t, input |-> <<In("T2", 0), In("T1", 0)>>,
                          output |-> <<Pkh("h1", 15)>>]
          [] t = "T5" -> [txid |-> t, input |-> <<In("T3", 0)>>,
                          output |-> <<Other(20)>>]
          [] t = "T6" -> [txid |-> t, input |-> <<In("T1", 1), In("T2", 1)>>,
                          output |-> <<Pkh("h1", 27)>>]]

Range(f) == {f[i] : i \in DOMAIN f}

\* the transactions of a chain (a sequence of blocks of txids), in order
RECURSIVE Flatten(_)
Flatten(c) == IF c = << >> THEN << >> ELSE Head(c) \o Flatten(Tail(c))

Outpoints(t) == {In(t, j - 1) : j \in DOMAIN Node[t].output}

SpendsOf(t) == {UTXOID_from(i) : i \in {x \in Range(Node[t].input) : ~is_null(x)}}

\* the outputs created by the transactions `txs` and spent by none of them
Unspent(txs) ==
    UNION {Outpoints(t) : t \in Range(txs)} \ UNION {SpendsOf(t) : t \in Range(txs)}

OutputOf(o) == Node[o.txid].output[o.vout + 1]

\* the transactions that may follow `applied` on a valid chain: a fresh
\* txid, every input spending an existing unspent output
Ext(applied) ==
    {t \in TxIds \ Range(applied) : SpendsOf(t) \subseteq Unspent(applied)}

\* the valid blocks of 1 .. n transactions that extend `applied`
RECURSIVE BlocksFrom(_, _)
BlocksFrom(applied, n) ==
    IF n = 0 THEN {}
    ELSE UNION {{<<t>>} \cup {<<t>> \o r : r \in BlocksFrom(Append(applied, t), n - 1)} :
                t \in Ext(applied)}

ValidBlocks == BlocksFrom(Flatten(chain), MaxBlockTxs)

Perms(S) ==
    {f \in [1 .. Cardinality(S) -> S] : \A x \in S : \E i \in DOMAIN f : f[i] = x}

----------------------------------------------------------------------------
(* What an address holds: its stored length, the multiset of its slots     *)
(* and its balance as the API reports it.                                  *)

SlotKeys(d, a) == {k \in DOMAIN d : Len(k) = 3 /\ k[1] = 1 /\ k[2] = a}

SlotBag(d, a) ==
    [s \in {d[k] : k \in SlotKeys(d, a)} |->
        Cardinality({k \in SlotKeys(d, a) : d[k] = s})]

AddrView(d) ==
    [a \in Addrs |->
        [len |-> StoredLen(d, <<1, a>>),
         slots |-> SlotBag(d, a),
         balance |-> get_balance(d, Base58Of(a))]]

----------------------------------------------------------------------------
(* The chain driver: it applies the next block at height tip + 1 and, on   *)
(* a reorg, undoes the block at the tip, at most CONFIRMATIONS deep.       *)

Tip == Len(chain)

NoReq == [path |-> "", address |-> None, amount |-> None, minCount |-> None]

NoLast ==
    [op |-> "init", block |-> << >>, idx |-> 0, order |-> << >>, pos |-> 0,
     pre |-> [db |-> EmptyDb, rewind |-> EmptyRewind],
     rtPre |-> None, stack |-> << >>, expect |-> None,
     execRun |-> 0, undoRun |-> 0]

NoWriter == [op |-> "none", ops |-> << >>, pc |-> 1, pre |-> EmptyDb, addr |-> None]

NoReader == [pc |-> "idle", addr |-> None, len |-> 0, i |-> 0, bal |-> 0,
             out |-> Err("")]

Init ==
    /\ db = EmptyDb
    /\ rewind = EmptyRewind
    /\ status = "ok"
    /\ build \in {"debug", "release"}
    /\ chain = << >>
    /\ undoable = 0
    /\ calls = << >>
    /\ last = NoLast
    /\ req = NoReq
    /\ resp = Err("")
    /\ steps = 0
    /\ writer = NoWriter
    /\ reader = NoReader

\* the block of the transactions b as the node serves it: every item decodes
BlockTxs(b) == [i \in DOMAIN b |-> Some(Node[b[i]])]

Min(a, b) == IF a <= b THEN a ELSE b

Exec(b) ==
    /\ status = "ok"
    /\ steps < MaxSteps
    /\ Tip < MaxHeight
    /\ \E R \in {exec(Ctx(db, rewind, build = "debug"), BlockTxs(b), Tip + 1)} :
           /\ db' = R.db
           /\ rewind' = R.rewind
           /\ status' = R.st
           /\ calls' = R.calls
           /\ chain' = IF R.st = "ok" THEN Append(chain, b) ELSE chain
           /\ undoable' = Min(undoable + 1, CONFIRMATIONS)
           /\ last' = [op |-> "exec", block |-> BlockTxs(b), idx |-> Tip + 1,
                       order |-> << >>, pos |-> R.pos,
                       pre |-> [db |-> db, rewind |-> rewind],
                       rtPre |-> Some(db),
                       stack |-> Append(last.stack, AddrView(db)),
                       expect |-> None,
                       execRun |-> IF last.op = "undo" THEN 1 ELSE last.execRun + 1,
                       undoRun |-> 0]
    /\ steps' = steps + 1
    /\ UNCHANGED <<build, req, resp, writer, reader>>

Undo(order) ==
    /\ status = "ok"
    /\ steps < MaxSteps
    /\ undoable > 0
    /\ Tip > 0
    /\ \E R \in {undo(Ctx(db, rewind, build = "debug"), BlockTxs(chain[Tip]), Tip, order, Node)} :
           /\ db' = R.db
           /\ rewind' = R.rewind
           /\ status' = R.st
           /\ calls' = R.calls
           /\ chain' = IF R.st = "ok" THEN SubSeq(chain, 1, Tip - 1) ELSE chain
           /\ undoable' = undoable - 1
           /\ last' = [op |-> "undo", block |-> BlockTxs(chain[Tip]), idx |-> Tip,
                       order |-> order, pos |-> R.pos,
                       pre |-> [db |-> db, rewind |-> rewind],
                       rtPre |-> IF last.op = "exec" THEN last.rtPre ELSE None,
                       stack |-> SubSeq(last.stack, 1, Len(last.stack) - 1),
                       expect |-> Some(last.stack[Len(last.stack)]),
                       execRun |-> last.execRun,
                       undoRun |-> last.undoRun + 1]
    /\ steps' = steps + 1
    /\ UNCHANGED <<build, req, resp, writer, reader>>

Next ==
    \/ \E b \in ValidBlocks : Exec(b)
    \/ \E order \in Perms(DOMAIN rewind[RingSlot(Tip)]) : Undo(order)

Spec == Init /\ [][Next]_vars

----------------------------------------------------------------------------
(* The read API as a function of the store it is given.  The stores are    *)
(* built by exec: one block whose coinbase pays n outputs to A1, and the   *)
(* chain <<T1>>, <<T2, T4>>.  Two kinds of incomplete store are given too: *)
(* the store a concurrent reader sees while rem is between its deletion of *)
(* the last slot (utxo.rs:222) and its write of the new length             *)
(* (utxo.rs:224), and a store whose cached raw transaction was removed     *)
(* outside the indexer.                                                    *)

QTx(n) ==
    [txid |-> "Q", input |-> <<NullOutpoint>>,
     output |-> [j \in 1 .. n |-> Pkh("h1", ((j - 1) % 3) + 1)]]

QLens == {0, 1, 2, 3, DefaultMinCount + 2}

QAmounts == {0, 3, 4, 100}

QMinCounts == {0, 1, DefaultMinCount + 1}

RECURSIVE BuiltFrom(_, _, _)
BuiltFrom(S, blocks, k) ==
    IF k > Len(blocks) THEN S
    ELSE BuiltFrom(exec(S, blocks[k], k), blocks, k + 1)

Built(blocks) == BuiltFrom(Ctx(EmptyDb, EmptyRewind, FALSE), blocks, 1).db

\* the context after exec of the blocks of chain c (a sequence of blocks of txids)
BuiltCtx(c) ==
    BuiltFrom(Ctx(EmptyDb, EmptyRewind, FALSE), [i \in DOMAIN c |-> BlockTxs(c[i])], 1)

WholeStores ==
    {Built(<<<<Some(QTx(n))>>>>) : n \in QLens}
        \cup {Built(<<BlockTxs(<<"T1">>), BlockTxs(<<"T2", "T4">>)>>)}

RECURSIVE Writes(_, _, _)
Writes(d, ops, k) ==
    IF k > Len(ops) THEN d ELSE Writes(Write(d, ops[k]), ops, k + 1)

\* the store after the writes of rem(id) up to the deletion of the last
\* slot: all its operations but the last two
MidRem(d, id) ==
    LET ops == RemOps(d, id, 0, FALSE)
    IN  Writes(d, SubSeq(ops, 1, Len(ops) - 2), 1)

MidRemStores ==
    UNION {{MidRem(d, [txid |-> k[2], vout |-> k[3]]) :
                k \in {x \in DOMAIN d : x[1] = 2}} :
           d \in WholeStores}

RawMissingStores ==
    UNION {{Delete(d, k) : k \in {x \in DOMAIN d : x[1] = 4}} : d \in WholeStores}

AddressParams ==
    {None,
     Some(Base58Of(A1)),
     Some(Base58Of(A2)),
     Some([valid |-> FALSE, len |-> 0, body |-> A1]),
     Some([valid |-> TRUE, len |-> 20, body |-> A1])}

NumberParams(S) ==
    {None, Some([numeric |-> FALSE, n |-> 0])}
        \cup {Some([numeric |-> TRUE, n |-> n]) : n \in S}

Requests ==
    [path : {"/balance", "/utxos", "/status"},
     address : AddressParams,
     amount : NumberParams(QAmounts),
     minCount : NumberParams(QMinCounts)]

InitQuery ==
    /\ db \in WholeStores \cup MidRemStores \cup RawMissingStores
    /\ rewind = EmptyRewind
    /\ status = "ok"
    /\ build = "release"
    /\ chain = << >>
    /\ undoable = 0
    /\ calls = << >>
    /\ last = NoLast
    /\ req = NoReq
    /\ resp = Err("")
    /\ steps = 0
    /\ writer = NoWriter
    /\ reader = NoReader

Query(r) ==
    /\ req = NoReq
    /\ req' = r
    /\ resp' = handle_request(db, r)
    /\ UNCHANGED <<db, rewind, status, build, chain, undoable, calls, last, steps,
                   writer, reader>>

NextQuery == \E r \in Requests : Query(r)

SpecQuery == InitQuery /\ [][NextQuery]_vars

----------------------------------------------------------------------------
(* A block application that fails.  The chain driver has applied one of    *)
(* the chains FailChains and gives exec the next block; the storage fails  *)
(* at one of the block's store operations, or one item of the block does   *)
(* not decode, or both.                                                    *)

FailChains ==
    {<< >>,
     <<<<"T1">>>>,
     <<<<"T1">>, <<"T2">>>>}

\* the block with item number bad undecodable (bad = 0: every item decodes)
Corrupt(block, bad) == [i \in DOMAIN block |-> IF i = bad THEN None ELSE block[i]]

InitFail ==
    /\ \E c \in FailChains :
          /\ chain = c
          /\ db = BuiltCtx(c).db
          /\ rewind = BuiltCtx(c).rewind
          /\ steps = Len(c)
          /\ undoable = Min(Len(c), CONFIRMATIONS)
    /\ status = "ok"
    /\ build \in {"debug", "release"}
    /\ calls = << >>
    /\ last = NoLast
    /\ req = NoReq
    /\ resp = Err("")
    /\ writer = NoWriter
    /\ reader = NoReader

\* exec of block b at tip + 1 on a storage that fails at operation n + 1
\* (n = -1: never), item number `bad` of the block undecodable
ExecFailing(b, n, bad) ==
    /\ status = "ok"
    /\ last.op = "init"
    /\ Tip < MaxHeight
    /\ \E R \in {exec(CtxFailing(db, rewind, build = "debug", n),
                       Corrupt(BlockTxs(b), bad), Tip + 1)} :
           /\ db' = R.db
           /\ rewind' = R.rewind
           /\ status' = R.st
           /\ calls' = R.calls
           /\ chain' = IF R.st = "ok" THEN Append(chain, b) ELSE chain
           /\ last' = [NoLast EXCEPT !.op = "exec",
                                     !.block = Corrupt(BlockTxs(b), bad),
                                     !.idx = Tip + 1,
                                     !.pos = R.pos,
                                     !.pre = [db |-> db, rewind |-> rewind]]
    /\ undoable' = Min(undoable + 1, CONFIRMATIONS)
    /\ steps' = steps + 1
    /\ UNCHANGED <<build, req, resp, writer, reader>>

NextFail ==
    \E b \in ValidBlocks : \E n \in -1 .. MaxIo : \E bad \in 0 .. Len(b) :
        ExecFailing(b, n, bad)

SpecFail == InitFail /\ [][NextFail]_vars

----------------------------------------------------------------------------
(* UTXO::add on an address whose stored length is at the end of the u32    *)
(* range.  The store is what that many calls of add leave behind.          *)

\* how far below the largest u32 the lengths of the initial stores start
FullSlack == 2
\* most add calls in one run
MaxAdds == 3

FillUtxo(a, k) == [txid |-> "F", vout |-> k, value |-> 1, address |-> Some(a)]

\* add called for outputs k .. n - 1 of the filling transaction
RECURSIVE Filled(_, _, _, _)
Filled(S, a, k, n) ==
    IF k >= n THEN S ELSE Filled(add(S, FillUtxo(a, k), None), a, k + 1, n)

FullAddrs == {A1, A2}

\* the outputs added next: unspent outputs of one transaction, paying the
\* filled address, another address, or no indexed address
NewUtxos ==
    {[txid |-> "G", vout |-> v, value |-> 2, address |-> a] :
        v \in 0 .. 2, a \in {Some(x) : x \in FullAddrs} \cup {None}}

InitFull ==
    /\ \E a \in FullAddrs : \E n \in (U32Mod - 1 - FullSlack) .. (U32Mod - 1) :
          db = Filled(Ctx(EmptyDb, EmptyRewind, TRUE), a, 0, n).db
    /\ rewind = EmptyRewind
    /\ status = "ok"
    /\ build \in {"debug", "release"}
    /\ chain = << >>
    /\ undoable = 0
    /\ calls = << >>
    /\ last = NoLast
    /\ req = NoReq
    /\ resp = Err("")
    /\ steps = 0
    /\ writer = NoWriter
    /\ reader = NoReader

\* one call utxo.add(db, None), as exec makes it for an output
AddOutput(utxo) ==
    /\ status = "ok"
    /\ steps < MaxAdds
    /\ <<2, utxo.txid, utxo.vout>> \notin DOMAIN db
    /\ \E R \in {add(Ctx(db, rewind, build = "debug"), utxo, None)} :
           /\ db' = R.db
           /\ status' = R.st
           /\ writer' = [op |-> "add",
                         ops |-> AddOps(db, utxo, None, build = "debug"),
                         pc |-> 1, pre |-> db, addr |-> utxo.address]
    /\ steps' = steps + 1
    /\ UNCHANGED <<rewind, build, chain, undoable, calls, last, req, resp, reader>>

NextFull == \E utxo \in NewUtxos : AddOutput(utxo)

SpecFull == InitFull /\ [][NextFull]_vars

----------------------------------------------------------------------------
(* One mutator call next to one get_balance call: the chain driver's       *)
(* thread runs one add or one rem, a query worker runs get_balance on the  *)
(* same store handle, and neither takes a lock.  The writer performs the   *)
(* operations of AddOps / RemOps one at a time, the reader its point reads *)
(* (api.rs:54, api.rs:65) one at a time, interleaved in any order.  The    *)
(* stores are those exec builds from the chains ConcChains.                *)

ConcChains ==
    {<<<<"T1">>>>,
     <<<<"T1">>, <<"T2">>>>,
     <<<<"T1">>, <<"T2", "T4">>>>}

\* the address whose array the operations `ops` write, if any
WrittenAddr(ops) ==
    LET ks == {ops[i].key : i \in {j \in DOMAIN ops : ops[j].op = "put"}}
        as == {k[2] : k \in {x \in ks : x[1] = 1}}
    IN  IF as = {} THEN None ELSE Some(CHOOSE a \in as : TRUE)

WriterOf(op, ops, d) ==
    [op |-> op, ops |-> ops, pc |-> 1, pre |-> d, addr |-> WrittenAddr(ops)]

\* the calls the driver can make next on chain c: rem of an unspent
\* outpoint (exec's input loop, undo's output loop), add of an output of a
\* transaction that extends the chain (exec's output loop), add of a spent
\* outpoint with its raw transaction (undo's replay loop)
WritersOn(c, d) ==
    LET applied == Flatten(c)
        spent == UNION {SpendsOf(t) : t \in Range(applied)}
    IN  {WriterOf("rem", RemOps(d, o, Len(c) + 1, FALSE), d) : o \in Unspent(applied)}
        \cup {WriterOf("add",
                       AddOps(d, from_txout(o.txid, OutputOf(o), o.vout), None, FALSE), d) :
                 o \in UNION {Outpoints(t) : t \in Ext(applied)}}
        \cup {WriterOf("add",
                       AddOps(d, from_txout(o.txid, OutputOf(o), o.vout),
                              Some(<<getrawtransaction(Node, o.txid),
                                     Len(Node[o.txid].output)>>), FALSE), d) :
                 o \in spent}

InitConc ==
    /\ \E c \in ConcChains :
          /\ chain = c
          /\ db = BuiltCtx(c).db
          /\ rewind = BuiltCtx(c).rewind
          /\ writer \in WritersOn(c, BuiltCtx(c).db)
          /\ steps = Len(c)
    /\ reader \in {[NoReader EXCEPT !.pc = "len", !.addr = Some(a)] : a \in Addrs}
    /\ status = "ok"
    /\ build = "release"
    /\ undoable = 0
    /\ calls = << >>
    /\ last = NoLast
    /\ req = NoReq
    /\ resp = Err("")

\* the next operation of the add or rem in progress
WriterStep ==
    /\ status = "ok"
    /\ writer.pc <= Len(writer.ops)
    /\ \E R \in {Do(Ctx(db, rewind, build = "debug"), writer.ops[writer.pc])} :
          /\ db' = R.db
          /\ rewind' = R.rewind
          /\ status' = R.st
    /\ writer' = [writer EXCEPT !.pc = @ + 1]
    /\ UNCHANGED <<build, chain, undoable, calls, last, req, resp, steps, reader>>

\* the next point read of the get_balance in progress: the length
\* (api.rs:54), then slot i (api.rs:65) for i in 0..len
ReaderStep ==
    /\ reader.pc \in {"len", "slot"}
    /\ LET addr == Unwrap(reader.addr)
       IN  IF reader.pc = "len"
           THEN LET len == StoredLen(db, <<1, addr>>)
                IN  reader' = IF len = 0
                              THEN [reader EXCEPT !.pc = "done", !.out = OkBalance(0)]
                              ELSE [reader EXCEPT !.pc = "slot", !.len = len]
           ELSE LET addr_value == Get(db, <<1, addr, reader.i>>)
                IN  reader' =
                      IF ~IsSome(addr_value)
                      THEN [reader EXCEPT !.pc = "done", !.out = Err("utxo missing")]
                      ELSE LET bal == reader.bal + Unwrap(addr_value).value
                           IN  IF reader.i + 1 >= reader.len
                               THEN [reader EXCEPT !.pc = "done", !.bal = bal,
                                                   !.out = OkBalance(bal)]
                               ELSE [reader EXCEPT !.i = @ + 1, !.bal = bal]
    /\ UNCHANGED <<db, rewind, status, build, chain, undoable, calls, last, req, resp,
                   steps, writer>>

NextConc == WriterStep \/ ReaderStep

SpecConc == InitConc /\ [][NextConc]_vars

----------------------------------------------------------------------------
(* Vocabulary of the properties.                                           *)

\* the dense-array / back-reference invariant of a store
DenseBackRef(d) ==
    /\ \A a \in Addrs :
          SlotKeys(d, a) = {<<1, a, i>> : i \in 0 .. StoredLen(d, <<1, a>>) - 1}
    /\ \A k \in DOMAIN d :
          (Len(k) = 3 /\ k[1] = 1) =>
              /\ <<2, d[k].txid, d[k].vout>> \in DOMAIN d
              /\ d[<<2, d[k].txid, d[k].vout>>] = k
    /\ \A k \in DOMAIN d :
          (Len(k) = 3 /\ k[1] = 2) =>
              /\ d[k] \in DOMAIN d
              /\ d[d[k]].txid = k[2]
              /\ d[d[k]].vout = k[3]

\* the keys of tags 1 and 2 with their values
IndexPart(d) == [k \in {x \in DOMAIN d : x[1] \in {1, 2}} |-> d[k]]

RECURSIVE SumValues(_)
SumValues(outs) ==
    IF outs = {} THEN 0
    ELSE LET o == CHOOSE x \in outs : TRUE
         IN  OutputOf(o).value + SumValues(outs \ {o})

\* output `out` is a p2pkh or p2sh output paying to address a
PaysTo(out, a) ==
    \/ out.script.kind = "p2pkh" /\ a = <<P2PKH, out.script.hash>>
    \/ out.script.kind = "p2sh" /\ a = <<P2SH, out.script.hash>>

\* the unspent outputs of the applied chain
ChainUnspent == Unspent(Flatten(chain))

\* a multiset as a function from elements to positive counts
BagMinus(B, s) ==
    [x \in {y \in DOMAIN B : y # s \/ B[y] > 1} |-> IF x = s THEN B[x] - 1 ELSE B[x]]

\* the multiset held by slots 0 .. n-1 of address a
BagOfSlots(d, a, n) ==
    LET ks == {<<1, a, i>> : i \in 0 .. n - 1} \cap DOMAIN d
    IN  [s \in {d[k] : k \in ks} |-> Cardinality({k \in ks : d[k] = s})]

Calls == {calls[i] : i \in DOMAIN calls}

\* the rem call c found its outpoint in the address index
Tracked(c) == <<2, c.self.txid, c.self.vout>> \in DOMAIN c.pre.db

VictimKey(c) == c.pre.db[<<2, c.self.txid, c.self.vout>>]

\* the rem call c moved the last slot into the victim's place
Swapped(c) ==
    /\ Tracked(c)
    /\ VictimKey(c)[3] # StoredLen(c.pre.db, <<1, VictimKey(c)[2]>>) - 1

----------------------------------------------------------------------------
(* C1: Round-trip.  When Undo(B, h) directly follows Exec(B, h) on a       *)
(* consistent index, the store equals the store before Exec(B, h): the     *)
(* same keys under tags 1, 2, 4 and 5 with the same values.                *)
C1_RoundTrip ==
    (status = "ok" /\ last.op = "undo" /\ IsSome(last.rtPre)
        /\ DenseBackRef(Unwrap(last.rtPre)))
    => db = Unwrap(last.rtPre)

C3_DenseBackRef == status = "ok" => DenseBackRef(db)

\* an Undo whose removal of a created output swapped slots of an address
\* that still holds several outputs
C3_Witness ==
    /\ status = "ok"
    /\ last.op = "undo"
    /\ \E c \in Calls : Swapped(c)
    /\ \E a \in Addrs : StoredLen(db, <<1, a>>) >= 3
    /\ DenseBackRef(db)

(* C4: Unspent-count invariant.  After every completed Exec and Undo,      *)
(* every tag-5 count that is present and greater than 0 equals the number  *)
(* of outputs of that transaction that the applied chain has created and   *)
(* not spent.                                                              *)
C4_UnspentCount ==
    status = "ok" =>
        \A t \in TxIds :
            (<<5, t>> \in DOMAIN db /\ db[<<5, t>>] > 0)
            => db[<<5, t>>] = Cardinality(Outpoints(t) \cap ChainUnspent)

(* C5: Balance correctness.  After any sequence of completed Exec calls,   *)
(* get_balance(A) is the sum of the values of the p2pkh/p2sh outputs       *)
(* paying to A that the applied blocks created and did not spend (0 when   *)
(* there is none).                                                         *)
C5_Balance ==
    (status = "ok" /\ steps = Tip) =>
        \A a \in Addrs :
            get_balance(db, Base58Of(a)) =
                OkBalance(SumValues({o \in ChainUnspent : PaysTo(OutputOf(o), a)}))

\* three blocks applied: one address has a positive balance, one had all
\* its outputs spent, one was never seen
C5_Witness ==
    /\ status = "ok"
    /\ steps = Tip
    /\ Tip = 3
    /\ get_balance(db, Base58Of(A1)).bal > 0
    /\ <<1, A2>> \in DOMAIN db /\ get_balance(db, Base58Of(A2)) = OkBalance(0)
    /\ <<1, A3>> \notin DOMAIN db /\ get_balance(db, Base58Of(A3)) = OkBalance(0)

(* C6: Swap-delete preserves the set.  Every completed rem of a UTXO held  *)
(* at some index of an address with L >= 1 slots (dense before the call)   *)
(* leaves length L-1 and, in slots 0 .. L-2, the multiset of slots it held *)
(* before minus the removed UTXO.                                          *)
C6_SwapDelete ==
    \A c \in Calls :
        (c.st = "ok" /\ Tracked(c) /\ DenseBackRef(c.pre.db)) =>
            LET a == VictimKey(c)[2]
                L == StoredLen(c.pre.db, <<1, a>>)
            IN  /\ L >= 1
                /\ StoredLen(c.post.db, <<1, a>>) = L - 1
                /\ BagOfSlots(c.post.db, a, L - 1) =
                       BagMinus(BagOfSlots(c.pre.db, a, L), c.pre.db[VictimKey(c)])
                /\ SlotKeys(c.post.db, a) = {<<1, a, i>> : i \in 0 .. L - 2}

\* a removal from the middle of three slots, and a removal of the last slot
C6_Witness ==
    /\ \E c \in Calls :
          /\ c.st = "ok" /\ Swapped(c)
          /\ StoredLen(c.pre.db, <<1, VictimKey(c)[2]>>) >= 3
          /\ VictimKey(c)[3] = 1
    /\ \E c \in Calls : c.st = "ok" /\ Tracked(c) /\ ~Swapped(c)

(* C8: After every completed rem on a txid whose tag-5 count was C >= 1,   *)
(* the tag-5 key is absent when C-1 = 0 and otherwise holds C-1; no        *)
(* reachable state holds a tag-5 key with value 0.                         *)
C8_CountAfterRem ==
    /\ \A c \in Calls :
          LET k5 == <<5, c.self.txid>>
          IN  (c.st = "ok" /\ k5 \in DOMAIN c.pre.db /\ c.pre.db[k5] >= 1) =>
                  IF c.pre.db[k5] - 1 = 0
                  THEN k5 \notin DOMAIN c.post.db
                  ELSE k5 \in DOMAIN c.post.db /\ c.post.db[k5] = c.pre.db[k5] - 1
    /\ \A t \in TxIds : <<5, t>> \in DOMAIN db => db[<<5, t>>] # 0

(* C10: Untracked-address spend is recorded for undo.  A rem made by Exec  *)
(* at height h for an outpoint without a tag-2 back-reference inserts the  *)
(* entry (none, raw) for that outpoint into rewind slot h mod N, raw being *)
(* the tag-4 value read by the call, and writes no tag-1 or tag-2 key.     *)
C10_UntrackedRecorded ==
    last.op = "exec" =>
        \A c \in Calls :
            (c.st = "ok" /\ ~Tracked(c)) =>
                /\ c.self \in DOMAIN c.post.rewind[RingSlot(c.idx)]
                /\ c.post.rewind[RingSlot(c.idx)][c.self] =
                       [data |-> None, raw |-> Get(c.pre.db, <<4, c.self.txid>>)]
                /\ IndexPart(c.post.db) = IndexPart(c.pre.db)

----------------------------------------------------------------------------
(* Properties of the read API, stated on the answered request.             *)

\* the request was answered
Answered == req # NoReq

\* the request names address a by a string that decodes to its 21 bytes
AsksFor(a) ==
    /\ IsSome(req.address)
    /\ Unwrap(req.address).valid
    /\ Unwrap(req.address).len = 21
    /\ Unwrap(req.address).body = a

\* the request is a /utxos request for address a with amount V and
\* minimum count M (20 when minCount is not given)
AsksUtxos(a, V, M) ==
    /\ req.path = "/utxos"
    /\ AsksFor(a)
    /\ IsSome(req.amount) /\ Unwrap(req.amount).numeric /\ Unwrap(req.amount).n = V
    /\ IF IsSome(req.minCount)
       THEN Unwrap(req.minCount).numeric /\ Unwrap(req.minCount).n = M
       ELSE M = 20

Amounts == QAmounts

MinCounts == QMinCounts \cup {20}

\* slot i of a and the raw transaction of its txid are both stored
SlotAndRaw(d, a, i) ==
    /\ <<1, a, i>> \in DOMAIN d
    /\ <<4, d[<<1, a, i>>].txid>> \in DOMAIN d

\* address a holds its L slots and their raw transactions
Whole(d, a) == \A i \in 0 .. StoredLen(d, <<1, a>>) - 1 : SlotAndRaw(d, a, i)

RECURSIVE PrefixSum(_, _, _)
PrefixSum(d, a, k) ==
    IF k < 0 THEN 0 ELSE d[<<1, a, k>>].value + PrefixSum(d, a, k - 1)

\* the scan may stop at index k
Stops(d, a, V, M, k) == k >= M /\ PrefixSum(d, a, k) >= V

\* the scan of /utxos reaches index j: the slots before j and their raws
\* are stored and the scan stops at none of them
Reaches(d, a, V, M, j) ==
    \A i \in 0 .. j - 1 : SlotAndRaw(d, a, i) /\ ~Stops(d, a, V, M, i)

\* the number of slots the stopping rule returns
StopCount(d, a, V, M) ==
    LET L == StoredLen(d, <<1, a>>)
        ks == {k \in 0 .. L - 1 : Stops(d, a, V, M, k)}
    IN  IF ks = {} THEN L
        ELSE (CHOOSE k \in ks : \A x \in ks : k <= x) + 1

(* C7: UTXO selection stopping rule.  For an address with L stored slots,  *)
(* get_utxos(A, V, M) returns slots 0 .. k in index order, none skipped,   *)
(* k being the smallest index with k >= M and value(0..k) >= V, and all L  *)
(* slots when there is no such index; M is 20 when minCount is not given.  *)
(* So the result is non-empty when L >= 1 and holds all L slots when the   *)
(* balance is below V.                                                     *)
C7_StoppingRule ==
    \A a \in Addrs : \A V \in Amounts : \A M \in MinCounts :
        (Answered /\ AsksUtxos(a, V, M) /\ Whole(db, a)) =>
            LET L == StoredLen(db, <<1, a>>)
                n == StopCount(db, a, V, M)
            IN  /\ resp.kind = "UTXOs"
                /\ resp.utxos =
                       [i \in 1 .. n |->
                           [txid |-> db[<<1, a, i - 1>>].txid,
                            vout |-> db[<<1, a, i - 1>>].vout,
                            value |-> db[<<1, a, i - 1>>].value,
                            raw |-> db[<<4, db[<<1, a, i - 1>>].txid>>]]]
                /\ (L >= 1 => Len(resp.utxos) >= 1)
                /\ (PrefixSum(db, a, L - 1) < V => Len(resp.utxos) = L)

\* minCount is not given, the amount is covered by the first slots, and
\* the scan stops at index 20 of 22 slots
C7_Witness ==
    /\ Answered
    /\ AsksUtxos(A1, 3, 20)
    /\ req.minCount = None
    /\ Whole(db, A1)
    /\ StoredLen(db, <<1, A1>>) = 22
    /\ resp.kind = "UTXOs"
    /\ Len(resp.utxos) = 21

\* the error cases of C9 that do not depend on the scan
C9_ParameterErrors ==
    /\ req.path \notin {"/balance", "/utxos"} => resp.kind = "Err"
    /\ ~IsSome(req.address) => resp.kind = "Err"
    /\ (IsSome(req.address)
          /\ (~Unwrap(req.address).valid \/ Unwrap(req.address).len # 21))
       => resp.kind = "Err"
    /\ (req.path = "/utxos" /\ ~IsSome(req.amount)) => resp.kind = "Err"
    /\ \A a \in Addrs :
          (req.path = "/balance" /\ AsksFor(a)
              /\ \E i \in 0 .. StoredLen(db, <<1, a>>) - 1 : <<1, a, i>> \notin DOMAIN db)
          => resp.kind = "Err"
    /\ \A a \in Addrs : \A V \in Amounts : \A M \in MinCounts :
          (AsksUtxos(a, V, M)
              /\ \E j \in 0 .. StoredLen(db, <<1, a>>) - 1 :
                    /\ Reaches(db, a, V, M, j)
                    /\ <<1, a, j>> \in DOMAIN db
                    /\ <<4, db[<<1, a, j>>].txid>> \notin DOMAIN db)
          => resp.kind = "Err"

(* C9 as stated: handle_request returns an error when the path is neither  *)
(* /balance nor /utxos, when the address is missing or does not decode to  *)
(* 21 bytes, when /utxos lacks the amount, and when a slot at an index     *)
(* below the stored length of the address (or the raw transaction of an    *)
(* iterated slot, for /utxos) is absent from the store.                    *)
C9_AsStated ==
    Answered =>
        /\ C9_ParameterErrors
        /\ \A a \in Addrs : \A V \in Amounts : \A M \in MinCounts :
              (AsksUtxos(a, V, M)
                  /\ \E j \in 0 .. StoredLen(db, <<1, a>>) - 1 : <<1, a, j>> \notin DOMAIN db)
              => resp.kind = "Err"

(* C9 amended: as stated, but for /utxos the absent slot must lie at an    *)
(* index the scan reaches (the scan stops at no earlier index); /balance   *)
(* reads every index below the stored length.                              *)
C9_QueryErrors ==
    Answered =>
        /\ C9_ParameterErrors
        /\ \A a \in Addrs : \A V \in Amounts : \A M \in MinCounts :
              (AsksUtxos(a, V, M)
                  /\ \E j \in 0 .. StoredLen(db, <<1, a>>) - 1 :
                        Reaches(db, a, V, M, j) /\ <<1, a, j>> \notin DOMAIN db)
              => resp.kind = "Err"

\* /utxos reaches the missing last slot of three: the two slots before it
\* do not cover the amount
C9_Witness ==
    /\ Answered
    /\ AsksUtxos(A1, 100, 0)
    /\ StoredLen(db, <<1, A1>>) = 3
    /\ <<1, A1, 1>> \in DOMAIN db
    /\ <<1, A1, 2>> \notin DOMAIN db
    /\ resp = Err("utxo missing")

----------------------------------------------------------------------------
(* Properties of one exec or undo call, stated on the block it was given.  *)

\* the transactions of the last block, all of them decodable
LastTxs == [i \in DOMAIN last.block |-> Unwrap(last.block[i])]

\* the outpoints consumed by the non-coinbase inputs of transaction tx
Consumed(tx) == {UTXOID_from(i) : i \in {x \in Range(tx.input) : ~is_null(x)}}

Created(tx) == {In(tx.txid, j - 1) : j \in DOMAIN tx.output}

\* outpoint o pays a p2pkh or p2sh script, so add puts it in the address index
Indexed(o) == \E a \in Addrs : PaysTo(OutputOf(o), a)

\* some slot of the store holds outpoint o
HasSlot(d, o) ==
    \E k \in DOMAIN d :
        Len(k) = 3 /\ k[1] = 1 /\ d[k].txid = o.txid /\ d[k].vout = o.vout

\* the tag-5 count of txid t, 0 when the key is absent
CountOf(d, t) == IF <<5, t>> \in DOMAIN d THEN d[<<5, t>>] ELSE 0

(* C11: Rewind slot content after Exec.  After a completed Exec(block, h)  *)
(* on a consistent index, rewind slot h mod N holds exactly one entry for  *)
(* each address-indexed outpoint consumed by a non-coinbase input of the   *)
(* block, mapped to the (address, value) its slot held immediately before  *)
(* the spend and the cached raw transaction; nothing is left over from the *)
(* block at height h-N or from an earlier Undo at that position.           *)
C11_RewindAfterExec ==
    (status = "ok" /\ last.op = "exec" /\ DenseBackRef(last.pre.db)) =>
        LET slot == rewind[last.idx % CONFIRMATIONS]
            spent == {o \in UNION {Consumed(LastTxs[i]) : i \in DOMAIN LastTxs} :
                         Indexed(o)}
        IN  /\ DOMAIN slot = spent
            /\ \A o \in spent : \E c \in Calls : c.self = o /\ Tracked(c)
            /\ \A c \in Calls :
                  Tracked(c) =>
                      /\ c.self \in DOMAIN slot
                      /\ slot[c.self] =
                             [data |-> Some([address |-> Some(VictimKey(c)[2]),
                                             value |-> c.pre.db[VictimKey(c)].value]),
                              raw |-> Some(consensus_encode(Node[c.self.txid]))]
                      /\ c.pre.db[VictimKey(c)].value = OutputOf(c.self).value
                      /\ PaysTo(OutputOf(c.self), VictimKey(c)[2])

\* the ring position is reused: it held the entries of the block N heights
\* below, none of which the new block spends again
C11_Witness ==
    /\ status = "ok"
    /\ last.op = "exec"
    /\ last.idx > CONFIRMATIONS
    /\ DenseBackRef(last.pre.db)
    /\ DOMAIN last.pre.rewind[last.idx % CONFIRMATIONS] # {}
    /\ DOMAIN rewind[last.idx % CONFIRMATIONS] # {}
    /\ DOMAIN last.pre.rewind[last.idx % CONFIRMATIONS]
           \cap DOMAIN rewind[last.idx % CONFIRMATIONS] = {}

(* C12: Intra-block spend ordering.  Exec processes the transactions in    *)
(* block order, inputs before outputs; when a later transaction of the     *)
(* block spends an address-indexed output created by an earlier one, after *)
(* Exec that output has no slot and no back-reference, the tag-5 count of  *)
(* the creating transaction is its output count less one for each of its   *)
(* outputs spent in the block, and rewind slot h mod N has an entry for    *)
(* the outpoint.                                                           *)
C12_IntraBlockSpend ==
    (status = "ok" /\ last.op = "exec") =>
        \A i \in DOMAIN LastTxs : \A j \in DOMAIN LastTxs :
            i < j =>
                \A o \in {x \in Created(LastTxs[i]) \cap Consumed(LastTxs[j]) : Indexed(x)} :
                    /\ <<2, o.txid, o.vout>> \notin DOMAIN db
                    /\ ~HasSlot(db, o)
                    /\ CountOf(db, o.txid) =
                           Len(LastTxs[i].output)
                             - Cardinality(Created(LastTxs[i])
                                   \cap UNION {Consumed(LastTxs[n]) : n \in DOMAIN LastTxs})
                    /\ o \in DOMAIN rewind[last.idx % CONFIRMATIONS]

\* a block whose second transaction spends one of the three indexed
\* outputs of its first
C12_Witness ==
    /\ status = "ok"
    /\ last.op = "exec"
    /\ \E i \in DOMAIN LastTxs : \E j \in DOMAIN LastTxs :
          /\ i < j
          /\ Len(LastTxs[i].output) = 3
          /\ \E o \in Created(LastTxs[i]) \cap Consumed(LastTxs[j]) :
                Indexed(o) /\ CountOf(db, o.txid) = 2

----------------------------------------------------------------------------
(* Properties of a mutator call that runs next to a reader.                *)

\* a rem is between two of its store operations
RemInProgress ==
    /\ writer.op = "rem"
    /\ writer.pc > 1
    /\ writer.pc <= Len(writer.ops)

\* the outpoint the rem in progress removes: the key of its last deletion
\* of a back-reference, if it gets that far
Removed(ops) ==
    LET ks == {ops[i].key : i \in {j \in DOMAIN ops : ops[j].op = "delete"}}
    IN  {[txid |-> k[2], vout |-> k[3]] : k \in {x \in ks : x[1] = 2}}

\* store d keeps the dense-array / back-reference invariant when the
\* length of address a is read as n and the outpoints `gone` (their slots
\* and back-references) are left out of account
DenseButFor(d, a, n, gone) ==
    /\ \A b \in Addrs :
          SlotKeys(d, b) =
              {<<1, b, i>> : i \in 0 .. (IF b = a THEN n ELSE StoredLen(d, <<1, b>>)) - 1}
    /\ \A k \in DOMAIN d :
          (Len(k) = 3 /\ k[1] = 1 /\ [txid |-> d[k].txid, vout |-> d[k].vout] \notin gone) =>
              /\ <<2, d[k].txid, d[k].vout>> \in DOMAIN d
              /\ d[<<2, d[k].txid, d[k].vout>>] = k
    /\ \A k \in DOMAIN d :
          (Len(k) = 3 /\ k[1] = 2 /\ [txid |-> k[2], vout |-> k[3]] \notin gone) =>
              /\ d[k] \in DOMAIN d
              /\ d[d[k]].txid = k[2]
              /\ d[d[k]].vout = k[3]

(* C13: Concurrent reader during remove.  In every state between two store *)
(* operations of one rem on address A, the store departs from the          *)
(* dense-array / back-reference invariant at most by a mismatch between    *)
(* the stored length of A and the presence of its last slot; every other   *)
(* slot and back-reference of A is consistent (the slot and back-reference *)
(* of the UTXO being removed are left out of account).                     *)
C13_OnlyLengthMismatch ==
    (RemInProgress /\ IsSome(writer.addr)) =>
        LET a == Unwrap(writer.addr)
            L == StoredLen(db, <<1, a>>)
        IN  \E n \in {L - 1, L, L + 1} :
                n >= 0 /\ DenseButFor(db, a, n, Removed(writer.ops))

(* C14: Concurrent balance query.  A get_balance(A) whose point reads are  *)
(* interleaved in any way with the store operations of one add or one rem  *)
(* fails with an error or returns the balance of A before the mutation or  *)
(* the balance of A after it, never any other value.                       *)
C14_BalanceBeforeOrAfter ==
    reader.pc = "done" =>
        \/ reader.out.kind = "Err"
        \/ reader.out = get_balance(writer.pre, Base58Of(Unwrap(reader.addr)))
        \/ reader.out = get_balance(Writes(writer.pre, writer.ops, 1),
                                    Base58Of(Unwrap(reader.addr)))

\* the reader's point reads are those of get_balance: next to a writer
\* that has not started, it returns what get_balance returns
ReaderIsGetBalance ==
    (reader.pc = "done" /\ writer.pc = 1) =>
        reader.out = get_balance(db, Base58Of(Unwrap(reader.addr)))

\* the writer's operations, one at a time, are those of add / rem: when
\* the last one is done the store is the one the call leaves
WriterIsAddOrRem ==
    (writer.op # "none" /\ writer.pc > Len(writer.ops)) =>
        db = Writes(writer.pre, writer.ops, 1)

(* C16: No unspent-count underflow.  In any sequence of completed Exec and *)
(* Undo calls on a valid chain (Undo only of the most recently applied     *)
(* block), every rem call finds the tag-5 count of its txid present with a *)
(* value of at least 1, so the u32 subtraction count - 1 never underflows. *)
C16_NoCountUnderflow ==
    \A c \in Calls :
        /\ <<5, c.self.txid>> \in DOMAIN c.pre.db
        /\ c.pre.db[<<5, c.self.txid>>] >= 1

\* the last block is one coinbase transaction
CoinbaseOnly ==
    /\ Len(last.block) = 1
    /\ LastTxs[1].input = <<NullOutpoint>>

\* the keys exec writes for transaction tx when none of its inputs is spent
AddedKeys(tx) ==
    {<<5, tx.txid>>, <<4, tx.txid>>}
        \cup {<<1, a>> : a \in {b \in Addrs : \E o \in Created(tx) : PaysTo(OutputOf(o), b)}}

(* C17: Coinbase inputs are skipped.  Exec never calls rem for an input    *)
(* whose previous outpoint is the null outpoint (all-zero txid, vout =     *)
(* u32::MAX); applying a block of one coinbase transaction leaves rewind   *)
(* slot h mod N empty, decrements no tag-5 count, removes no address slot  *)
(* and only adds the coinbase outputs.                                     *)
C17_CoinbaseSkipped ==
    last.op = "exec" =>
        /\ \A c \in Calls : c.self # [txid |-> NullOutpoint.txid, vout |-> NullOutpoint.vout]
        /\ (status = "ok" /\ CoinbaseOnly) =>
              LET tx == LastTxs[1]
                  pre == last.pre.db
              IN  /\ rewind[last.idx % CONFIRMATIONS] = << >>
                  /\ Calls = {}
                  /\ \A k \in DOMAIN pre :
                        /\ k \in DOMAIN db
                        /\ k \notin AddedKeys(tx) => db[k] = pre[k]
                  /\ \A a \in Addrs :
                        StoredLen(db, <<1, a>>) =
                            StoredLen(pre, <<1, a>>)
                              + Cardinality({o \in Created(tx) : PaysTo(OutputOf(o), a)})
                  /\ \A o \in Created(tx) :
                        Indexed(o) => (<<2, o.txid, o.vout>> \in DOMAIN db /\ HasSlot(db, o))
                  /\ Get(db, <<5, tx.txid>>) = Some(Len(tx.output))

\* a coinbase-only block applied on a store that holds outputs, at a ring
\* position that held entries
C17_Witness ==
    /\ status = "ok"
    /\ last.op = "exec"
    /\ CoinbaseOnly
    /\ \E a \in Addrs : StoredLen(last.pre.db, <<1, a>>) > 0
    /\ last.pre.rewind[last.idx % CONFIRMATIONS] # << >>
    /\ rewind[last.idx % CONFIRMATIONS] = << >>
    /\ \E o \in Created(LastTxs[1]) : Indexed(o) /\ HasSlot(db, o)

\* the keys whose presence or value differs between stores d and e
ChangedKeys(d, e) ==
    {k \in DOMAIN d \cup DOMAIN e : Get(d, k) # Get(e, k)}

\* the keys a rem of the UTXO at slot vk may change when its address holds
\* L slots in store d
RemFrame(d, c, vk, L) ==
    LET a == vk[2]
        lastKey == <<1, a, L - 1>>
    IN  {<<1, a>>, lastKey, <<2, c.self.txid, c.self.vout>>, <<5, c.self.txid>>}
            \cup (IF vk[3] # L - 1
                  THEN {vk, <<2, d[lastKey].txid, d[lastKey].vout>>}
                  ELSE {})

(* C18: Frame of remove.  A completed rem of a UTXO stored at slot (A, i), *)
(* with last = length(A) - 1, changes only the length of A, slot (A, last),*)
(* the removed UTXO's back-reference, the tag-5 count of its txid and,     *)
(* only when i differs from last, slot (A, i) and the back-reference of    *)
(* the UTXO moved from (A, last); every other key is unchanged, and        *)
(* removing the only UTXO of A leaves length(A) = 0 and no slots.          *)
C18_RemFrame ==
    \A c \in Calls :
        (c.st = "ok" /\ Tracked(c)) =>
            LET vk == VictimKey(c)
                L == StoredLen(c.pre.db, <<1, vk[2]>>)
            IN  /\ ChangedKeys(c.pre.db, c.post.db) \subseteq RemFrame(c.pre.db, c, vk, L)
                /\ <<1, vk[2], L - 1>> \notin DOMAIN c.post.db
                /\ <<2, c.self.txid, c.self.vout>> \notin DOMAIN c.post.db
                /\ L = 1 => /\ Get(c.post.db, <<1, vk[2]>>) = Some(0)
                            /\ SlotKeys(c.post.db, vk[2]) = {}

\* one Undo removes a UTXO from the middle of its address (a swap), one
\* from the end, and the only UTXO of an address
C18_Witness ==
    /\ \E c \in Calls :
          /\ c.st = "ok" /\ Swapped(c)
          /\ VictimKey(c)[3] > 0
          /\ ChangedKeys(c.pre.db, c.post.db) # {}
    /\ \E c \in Calls :
          /\ c.st = "ok" /\ Tracked(c) /\ ~Swapped(c)
          /\ StoredLen(c.pre.db, <<1, VictimKey(c)[2]>>) > 1
    /\ \E c \in Calls :
          /\ c.st = "ok" /\ Tracked(c)
          /\ StoredLen(c.pre.db, <<1, VictimKey(c)[2]>>) = 1

\* the ring with every position but s emptied
OnlySlot(rw, s) == [x \in DOMAIN rw |-> IF x = s THEN rw[x] ELSE << >>]

\* the last call, run again on a ring whose other positions are empty
LastOnOwnSlot ==
    LET S == Ctx(last.pre.db, OnlySlot(last.pre.rewind, last.idx % CONFIRMATIONS),
                 build = "debug")
    IN  IF last.op = "exec" THEN exec(S, last.block, last.idx)
        ELSE undo(S, last.block, last.idx, last.order, Node)

(* C19: Rewind ring frame.  Exec(block, h) and Undo(block, h) read and     *)
(* write only rewind slot h mod N: the other N-1 slots are unchanged by    *)
(* the call, and what the call does to the store, to its own slot and to   *)
(* its result does not depend on what the other slots hold.                *)
C19_RingFrame ==
    last.op \in {"exec", "undo"} =>
        /\ \A s \in DOMAIN rewind :
              s # last.idx % CONFIRMATIONS => rewind[s] = last.pre.rewind[s]
        /\ \E R \in {LastOnOwnSlot} :
              /\ R.db = db
              /\ R.st = status
              /\ R.rewind[last.idx % CONFIRMATIONS] = rewind[last.idx % CONFIRMATIONS]

\* an Undo at height h that replayed entries of its own slot while the
\* slot of height h - 1 held undo information
C19_Witness ==
    /\ last.op = "undo"
    /\ status = "ok"
    /\ last.pre.rewind[last.idx % CONFIRMATIONS] # << >>
    /\ \E s \in DOMAIN rewind :
          /\ s # last.idx % CONFIRMATIONS
          /\ rewind[s] # << >>

\* an Exec at height h that recorded spends in its own slot while the slot
\* of height h - 1 held undo information
C19_ExecWitness ==
    /\ last.op = "exec"
    /\ status = "ok"
    /\ rewind[last.idx % CONFIRMATIONS] # << >>
    /\ \E s \in DOMAIN rewind :
          /\ s # last.idx % CONFIRMATIONS
          /\ rewind[s] # << >>

\* the tag-5 counts and tag-4 raws of store d
TxKeys(d) ==
    [k \in {x \in DOMAIN d : Len(x) = 2 /\ x[1] \in {4, 5}} |-> d[k]]

\* the orders in which the last Undo could have replayed its ring position
ReplayOrders == Perms(DOMAIN last.pre.rewind[last.idx % CONFIRMATIONS])

(* C20: Undo is independent of replay order.  For any two orders in which  *)
(* Undo replays the entries of slot h mod N, the resulting stores agree on *)
(* every address length, on the multiset of (txid, vout, value) of every   *)
(* address, on every tag-5 count and tag-4 raw, and satisfy the dense      *)
(* array / back-reference invariant; only the index order of the slots of  *)
(* an address may differ.                                                  *)
C20_ReplayOrderIndependent ==
    last.op = "undo" =>
        \A order \in ReplayOrders :
            \E R \in {undo(Ctx(last.pre.db, last.pre.rewind, build = "debug"),
                           last.block, last.idx, order, Node)} :
                /\ R.st = status
                /\ R.rewind = rewind
                /\ AddrView(R.db) = AddrView(db)
                /\ TxKeys(R.db) = TxKeys(db)
                /\ DenseBackRef(R.db)

\* an Undo that replayed two or more entries, two of them to one address,
\* and whose store depends on the order in the slot indexes only
C20_Witness ==
    /\ last.op = "undo"
    /\ status = "ok"
    /\ Cardinality(ReplayOrders) >= 2
    /\ \E order \in ReplayOrders :
          undo(Ctx(last.pre.db, last.pre.rewind, build = "debug"),
               last.block, last.idx, order, Node).db # db

----------------------------------------------------------------------------
(* Properties of a block application that fails.                           *)

\* the last exec returned an error
FailedExec == status = "err" /\ last.op = "exec"

\* transaction number j of the last block
TxAt(j) == Unwrap(last.block[j])

\* what the block's transactions j+1 .. k consume
ConsumedIn(j, k) ==
    UNION {Consumed(TxAt(n)) : n \in {m \in j + 1 .. k : IsSome(last.block[m])}}

\* everything exec does for transaction number j is in place, but for the
\* outputs that transactions j+1 .. k of the block consume
Applied(j, k) ==
    /\ IsSome(last.block[j])
    /\ Get(db, <<4, TxAt(j).txid>>) = Some(consensus_encode(TxAt(j)))
    /\ Created(TxAt(j)) \cap ConsumedIn(j, k) = {}
          => Get(db, <<5, TxAt(j).txid>>) = Some(Len(TxAt(j).output))
    /\ \A o \in Consumed(TxAt(j)) :
          /\ <<2, o.txid, o.vout>> \notin DOMAIN db
          /\ ~HasSlot(db, o)
          /\ Indexed(o) => o \in DOMAIN rewind[last.idx % CONFIRMATIONS]
    /\ \A o \in Created(TxAt(j)) \ ConsumedIn(j, k) :
          Indexed(o) => (<<2, o.txid, o.vout>> \in DOMAIN db /\ HasSlot(db, o))

\* nothing exec does for transaction number j has happened
Untouched(j) ==
    IsSome(last.block[j]) =>
        /\ <<4, TxAt(j).txid>> \notin DOMAIN db
        /\ <<5, TxAt(j).txid>> \notin DOMAIN db
        /\ \A o \in Created(TxAt(j)) : <<2, o.txid, o.vout>> \notin DOMAIN db
        /\ \A o \in Consumed(TxAt(j)) :
              /\ o \notin DOMAIN rewind[last.idx % CONFIRMATIONS]
              /\ <<2, o.txid, o.vout>> \in DOMAIN last.pre.db
                    => <<2, o.txid, o.vout>> \in DOMAIN db

\* what exec did for transaction number k before it failed is in place, in
\* program order: inputs, then tag 5, then tag 4, then the outputs
Partly(k) ==
    /\ \A c \in Calls :
          c.st = "ok" =>
              /\ <<2, c.self.txid, c.self.vout>> \notin DOMAIN db
              /\ Tracked(c) => c.self \in DOMAIN rewind[last.idx % CONFIRMATIONS]
    /\ IsSome(last.block[k]) =>
          /\ <<5, TxAt(k).txid>> \in DOMAIN db =>
                \A o \in Consumed(TxAt(k)) : <<2, o.txid, o.vout>> \notin DOMAIN db
          /\ <<4, TxAt(k).txid>> \in DOMAIN db => <<5, TxAt(k).txid>> \in DOMAIN db
          /\ \A o \in Created(TxAt(k)) :
                <<2, o.txid, o.vout>> \in DOMAIN db => <<4, TxAt(k).txid>> \in DOMAIN db

(* C15: No automatic rollback on failure.  When Exec(block, h) fails while *)
(* processing the k-th transaction of the block (decode error, storage     *)
(* error, or a rem that errors), it returns the error, the tip is not      *)
(* moved, every store mutation and rewind entry made for transactions      *)
(* 1 .. k-1 and those made for transaction k before the failing step       *)
(* remain, and no later transaction of the block is processed.             *)
C15_NoRollback ==
    FailedExec =>
        /\ Tip = last.idx - 1
        /\ last.pos \in DOMAIN last.block
        /\ \A j \in 1 .. last.pos - 1 : Applied(j, last.pos)
        /\ Partly(last.pos)
        /\ \A j \in last.pos + 1 .. Len(last.block) : Untouched(j)

\* the storage fails in the second transaction of a block after one of its
\* inputs was removed from the address index and before its tag-4 write;
\* the first transaction had spent an indexed output
C15_Witness ==
    /\ FailedExec
    /\ last.pos = 2
    /\ IsSome(last.block[2])
    /\ Applied(1, 2)
    /\ \E o \in Consumed(TxAt(1)) : Indexed(o)
    /\ \E c \in Calls : c.st = "ok" /\ Tracked(c) /\ c.self \in Consumed(TxAt(2))
    /\ <<4, TxAt(2).txid>> \notin DOMAIN db
    /\ db # last.pre.db

\* an item that does not decode stops exec after the transactions before it
C15_DecodeWitness ==
    /\ FailedExec
    /\ last.pos = 2
    /\ ~IsSome(last.block[2])
    /\ Applied(1, 2)
    /\ db # last.pre.db

----------------------------------------------------------------------------
(* Properties of add at the end of the length range.                       *)

\* the last call was an add to an address whose stored length was the
\* largest u32
AddAtMax ==
    /\ writer.op = "add"
    /\ IsSome(writer.addr)
    /\ StoredLen(writer.pre, <<1, Unwrap(writer.addr)>>) = U32Mod - 1

(* C21: Length overflow is rejected.  When the stored length of an address *)
(* is the largest u32, a further add to that address does not silently     *)
(* wrap: it does not store a length of 0 or any length smaller than the    *)
(* one before, and it does not leave a stored length smaller than the      *)
(* number of slots the address has.                                        *)
C21_NoSilentWrap ==
    AddAtMax =>
        LET a == Unwrap(writer.addr) IN
        /\ StoredLen(db, <<1, a>>) >= StoredLen(writer.pre, <<1, a>>)
        /\ StoredLen(db, <<1, a>>) >= Cardinality(SlotKeys(db, a))

====
